---- MODULE Spec2Model ----
(***************************************************************************)
(* gta-img: reader and writer of sector-aligned IMG/DIR archives.          *)
(*                                                                         *)
(* The model follows src/src/write.rs (V1Writer, V2Writer) and             *)
(* src/src/read.rs (V1Reader, V2Reader, Archive, OpenEntry).               *)
(*                                                                         *)
(* Byte strings (sinks, sources, payloads) are kept run-length encoded: a  *)
(* sequence of runs [b |-> byte, n |-> count], n >= 1, no two neighbouring *)
(* runs with the same byte.  Two byte strings are equal exactly when their *)
(* run sequences are equal, and a payload of 65536 sectors is as cheap as  *)
(* one of 9 bytes.  Text is a sequence of code points.                     *)
(***************************************************************************)
EXTENDS Integers, Sequences, FiniteSets, TLC

(***************************************************************************)
(* Program constants.                                                      *)
(***************************************************************************)
SECTOR_SIZE == 2048
NAME_SIZE == 23
NULL_TERMINATOR == 0
VERSION_2_HEADER == <<86, 69, 82, 50>>
VERSION_2_HEADER_ENTRY_OFFSET == 8
VERSION_2_HEADER_ENTRY_SIZE == 32
NAME_SIZE_NULL_TERMINATOR == NAME_SIZE + 1

(***************************************************************************)
(* Byte strings.                                                           *)
(***************************************************************************)
Min(a, b) == IF a <= b THEN a ELSE b

Max(a, b) == IF a >= b THEN a ELSE b

\* u64::div_ceil
DivCeil(a, b) == (a + b - 1) \div b

\* let x = v; F(x): v is evaluated once and F gets its value
Bind(v, F(_)) == CHOOSE y \in {F(x) : x \in {v}} : TRUE

RECURSIVE BLen(_)
BLen(s) == IF s = <<>> THEN 0 ELSE Head(s).n + BLen(Tail(s))

\* a followed by b
BCat(a, b) ==
    IF a = <<>> THEN b
    ELSE IF b = <<>> THEN a
    ELSE IF a[Len(a)].b = b[1].b
         THEN SubSeq(a, 1, Len(a) - 1)
              \o <<[b |-> b[1].b, n |-> a[Len(a)].n + b[1].n]>>
              \o Tail(b)
         ELSE a \o b

\* the first n bytes of s (all of s when it is shorter)
RECURSIVE BTake(_, _)
BTake(s, n) ==
    IF n <= 0 \/ s = <<>> THEN <<>>
    ELSE IF Head(s).n <= n
         THEN <<Head(s)>> \o BTake(Tail(s), n - Head(s).n)
         ELSE <<[b |-> Head(s).b, n |-> n]>>

\* s without its first n bytes
RECURSIVE BDrop(_, _)
BDrop(s, n) ==
    IF n <= 0 \/ s = <<>> THEN s
    ELSE IF Head(s).n <= n
         THEN BDrop(Tail(s), n - Head(s).n)
         ELSE <<[b |-> Head(s).b, n |-> Head(s).n - n]>> \o Tail(s)

\* vec![0; n]
BZeros(n) == IF n <= 0 THEN <<>> ELSE <<[b |-> 0, n |-> n]>>

\* the byte string of an explicit sequence of bytes
RECURSIVE BFromSeq(_)
BFromSeq(q) ==
    IF q = <<>> THEN <<>>
    ELSE BCat(<<[b |-> Head(q), n |-> 1]>>, BFromSeq(Tail(q)))

\* the explicit sequence of bytes of a (short) byte string
RECURSIVE BToSeq(_)
BToSeq(s) ==
    IF s = <<>> THEN <<>>
    ELSE [i \in 1..Head(s).n |-> Head(s).b] \o BToSeq(Tail(s))

\* the n bytes of s from byte offset pos on (fewer at the end of s)
BSlice(s, pos, n) == BTake(BDrop(s, pos), n)

\* A seekable sink after writing data at byte offset pos: a gap between the
\* end of the sink and pos is filled with zeros, bytes under data are
\* overwritten, the sink grows as needed.  An empty write changes nothing.
BWriteAt(buf, pos, data) ==
    IF data = <<>> THEN buf
    ELSE LET padded == BCat(buf, BZeros(pos - BLen(buf)))
         IN  BCat(BCat(BTake(padded, pos), data),
                  BDrop(padded, pos + BLen(data)))

\* v as w little-endian bytes, the cast to the w-byte unsigned type included
LittleEndian(v, w) == [i \in 1..w |-> (v \div (256 ^ (i - 1))) % 256]

\* the unsigned integer of a little-endian byte sequence
RECURSIVE FromLittleEndian(_)
FromLittleEndian(q) ==
    IF q = <<>> THEN 0 ELSE Head(q) + 256 * FromLittleEndian(Tail(q))

(***************************************************************************)
(* Name codec.                                                             *)
(***************************************************************************)
\* the characters that do not fit in a byte replaced by '?', not dropped
NarrowCharsReplaced(string) ==
    [i \in 1..Len(string) |-> IF string[i] <= 255 THEN string[i] ELSE 63]

\* string.chars().flat_map(u8::try_from): the characters that fit in a byte
RECURSIVE NarrowChars(_)
NarrowChars(string) ==
    IF string = <<>> THEN <<>>
    ELSE IF Head(string) <= 255
         THEN <<Head(string)>> \o NarrowChars(Tail(string))
         ELSE NarrowChars(Tail(string))

to_null_terminated(string) ==
    LET fit == NarrowChars(string)
    IN  [i \in 1..NAME_SIZE |->
            IF i <= Len(fit) THEN fit[i] ELSE NULL_TERMINATOR]
        \o <<NULL_TERMINATOR>>

\* buf.iter().position(|&b| b == NULL_TERMINATOR).unwrap_or(buf.len()),
\* counted from 0
RECURSIVE NullPosition(_)
NullPosition(buf) ==
    IF buf = <<>> THEN 0
    ELSE IF Head(buf) = NULL_TERMINATOR THEN 0
    ELSE 1 + NullPosition(Tail(buf))

\* the text of a name buffer cut one character short of NAME_SIZE
NameOfBufferShort(buf) ==
    SubSeq(buf, 1, Min(NullPosition(buf), NAME_SIZE - 1))

\* The text of a name buffer: the bytes before the first null, each as the
\* character of that code point.
NameOfBuffer(buf) ==
    SubSeq(buf, 1, Min(NullPosition(buf), NAME_SIZE_NULL_TERMINATOR))

(***************************************************************************)
(* Readable streams: [data |-> bytes, pos |-> cursor].  The index of a V1  *)
(* archive and the image of a V2 archive are read through these.           *)
(***************************************************************************)
Remaining(st) == Max(BLen(st.data) - st.pos, 0)

\* Read::read into a buffer of n bytes: one read, which delivers what is
\* left when fewer than n bytes are left, and reports no error.
StreamRead(st, n) ==
    Bind(Min(n, Remaining(st)), LAMBDA k :
        [bytes |-> BToSeq(BSlice(st.data, st.pos, k)),
         st |-> [st EXCEPT !.pos = st.pos + k]])

\* Read::read_exact: UnexpectedEof when fewer than n bytes are left.
StreamReadExact(st, n) ==
    IF Remaining(st) < n
    THEN [ok |-> FALSE, bytes |-> <<>>, st |-> [st EXCEPT !.pos = BLen(st.data)]]
    ELSE [ok |-> TRUE, bytes |-> BToSeq(BSlice(st.data, st.pos, n)),
          st |-> [st EXCEPT !.pos = st.pos + n]]

\* read_null_terminated: a zeroed buffer of 24 bytes, ONE read into it (the
\* count it returns is dropped), the name up to the first null.
read_null_terminated(st) ==
    Bind(StreamRead(st, NAME_SIZE_NULL_TERMINATOR), LAMBDA r :
        [name |-> NameOfBuffer(
                      r.bytes \o [i \in 1..(NAME_SIZE_NULL_TERMINATOR - Len(r.bytes))
                                    |-> 0]),
         st |-> r.st])

(***************************************************************************)
(* Readers.                                                                *)
(***************************************************************************)
NoError == "none"

\* Result<Archive, ReadError>: the entries of Ok(archive), or the error
ArchiveOk(es) == [ok |-> TRUE, err |-> NoError, entries |-> es]

ArchiveErr(e) == [ok |-> FALSE, err |-> e, entries |-> <<>>]

Entry(name, off, len) == [name |-> name, off |-> off, len |-> len]

\* V1Reader::read: records until read_u32 of the offset meets UnexpectedEof
RECURSIVE V1ReadLoop(_, _)
V1ReadLoop(st, es) ==
    Bind(StreamReadExact(st, 4), LAMBDA off :
      IF ~off.ok THEN ArchiveOk(es)
      ELSE Bind(StreamReadExact(off.st, 4), LAMBDA len :
        IF ~len.ok THEN ArchiveErr("IoError")
        ELSE Bind(read_null_terminated(len.st), LAMBDA nm :
          Bind(Append(es, Entry(nm.name, FromLittleEndian(off.bytes),
                                FromLittleEndian(len.bytes))), LAMBDA es2 :
            V1ReadLoop(nm.st, es2)))))

V1ReaderRead(dirBytes) == V1ReadLoop([data |-> dirBytes, pos |-> 0], <<>>)

\* for _ in 0..count of V2Reader::read; the stream is returned with the result
RECURSIVE V2ReadLoop(_, _, _)
V2ReadLoop(st, todo, es) ==
    IF todo = 0 THEN [res |-> ArchiveOk(es), st |-> st]
    ELSE
    Bind(StreamReadExact(st, 4), LAMBDA off :
      IF ~off.ok THEN [res |-> ArchiveErr("IoError"), st |-> off.st]
      ELSE Bind(StreamReadExact(off.st, 2), LAMBDA len :
        IF ~len.ok THEN [res |-> ArchiveErr("IoError"), st |-> len.st]
        ELSE Bind(StreamReadExact(len.st, 2), LAMBDA unused :
          IF ~unused.ok THEN [res |-> ArchiveErr("IoError"), st |-> unused.st]
          ELSE Bind(read_null_terminated(unused.st), LAMBDA nm :
            Bind(Append(es, Entry(nm.name, FromLittleEndian(off.bytes),
                                  FromLittleEndian(len.bytes))), LAMBDA es2 :
              V2ReadLoop(nm.st, todo - 1, es2))))))

\* V2Reader::read over the image, read from cursor position pos on
V2ReaderRead(imgBytes, pos) ==
    Bind(StreamReadExact([data |-> imgBytes, pos |-> pos], Len(VERSION_2_HEADER)),
         LAMBDA header :
      IF ~header.ok THEN [res |-> ArchiveErr("IoError"), st |-> header.st]
      ELSE IF header.bytes # VERSION_2_HEADER
           THEN [res |-> ArchiveErr("InvalidHeader"), st |-> header.st]
      ELSE Bind(StreamReadExact(header.st, 4), LAMBDA count :
        IF ~count.ok THEN [res |-> ArchiveErr("IoError"), st |-> count.st]
        ELSE V2ReadLoop(count.st, FromLittleEndian(count.bytes), <<>>)))

(***************************************************************************)
(* Bounds and inputs.                                                      *)
(***************************************************************************)
\* write calls made on one writer
MaxCalls == 2

\* read calls made on one entry stream
MaxReads == 3

\* failed sink operations in one run
MaxFaults == 1

\* "VIRGO.DFF"
NameVirgo == <<86, 73, 82, 71, 79, 46, 68, 70, 70>>

\* "abcdefghijklmnopqrstuvw", a name of exactly NAME_SIZE characters
NameFull == [i \in 1..NAME_SIZE |-> 96 + i]

Names == {NameVirgo, NameFull}

\* a payload of n bytes, none of them zero: first, then filler to the end
Payload(first, n) == BTake(<<[b |-> first, n |-> 1], [b |-> 33, n |-> n]>>, n)

\* an empty payload, one of exactly a sector, one of a sector and a byte
Sources == {Payload(86, 0), Payload(86, SECTOR_SIZE), Payload(76, SECTOR_SIZE + 1)}

(***************************************************************************)
(* Sinks.  A write call is a list of operations on its sinks, run in order *)
(* until one fails (the ? of the code).  An operation is                   *)
(*   [kind |-> "seek", to |-> byte offset, data |-> <<>>]   img.seek        *)
(*   [kind |-> "copy", data |-> bytes]     io::copy of the source to img   *)
(*   [kind |-> "img",  data |-> bytes]     img.write_all                   *)
(*   [kind |-> "dir",  data |-> bytes]     dir.write_all                   *)
(* and the sinks are [dir, img, imgPos].  A fault [at |-> i, done |-> k]   *)
(* makes operation i fail after k of its bytes reached the sink; at = 0 is *)
(* a call in which no operation fails.                                     *)
(***************************************************************************)
SeekOp(to) == [kind |-> "seek", to |-> to, data |-> <<>>]

WriteOp(kind, data) == [kind |-> kind, to |-> 0, data |-> data]

NoFault == [at |-> 0, done |-> 0]

\* the sinks after the first k bytes of the operation took effect
ApplyOp(s, op, k) ==
    LET data == BTake(op.data, k)
    IN  CASE op.kind = "seek" -> [s EXCEPT !.imgPos = op.to]
          [] op.kind = "dir" -> [s EXCEPT !.dir = BCat(s.dir, data)]
          [] OTHER ->
               [s EXCEPT !.img = BWriteAt(s.img, s.imgPos, data),
                         !.imgPos = s.imgPos + BLen(data)]

\* a failed seek leaves the cursor, a failed write the bytes it got through
ApplyFailedOp(s, op, k) == IF op.kind = "seek" THEN s ELSE ApplyOp(s, op, k)

RECURSIVE RunOps(_, _, _, _)
RunOps(s, ops, i, fault) ==
    IF i > Len(ops) THEN [ok |-> TRUE, s |-> s]
    ELSE IF fault.at = i
         THEN [ok |-> FALSE, s |-> ApplyFailedOp(s, ops[i], fault.done)]
         ELSE \* the sinks after operation i, evaluated once, go to the rest
              CHOOSE r \in {RunOps(t, ops, i + 1, fault) :
                              t \in {ApplyOp(s, ops[i], BLen(ops[i].data))}} : TRUE

\* The faults a sink can produce in a call: a seek fails outright; write_all
\* fails in a write of bytes still to be written, so only when there are
\* some, with fewer than all of them through; io::copy fails in a read of the
\* source or a write to the sink, with any part of the source through.
CanFail(op, k) ==
    CASE op.kind = "seek" -> k = 0
      [] op.kind = "copy" -> k <= BLen(op.data)
      [] OTHER -> k < BLen(op.data)

Faults(ops, left) ==
    {NoFault} \cup
    {f \in [at : 1..Len(ops), done : {0, 1}] :
        left > 0 /\ CanFail(ops[f.at], f.done)}

\* the bytes io::copy took from the source in a call that ran ops under fault
SourceRead(ops, copyAt, fault) ==
    IF fault.at = 0 \/ fault.at > copyAt THEN BLen(ops[copyAt].data)
    ELSE IF fault.at = copyAt THEN fault.done
    ELSE 0

(***************************************************************************)
(* Writers.                                                                *)
(***************************************************************************)
\* no padding after the payload
remainder_unpadded(sectors, bytes) == BZeros(0)

remainder_padded_bytes(sectors, bytes) ==
    BZeros(Max(sectors * SECTOR_SIZE - bytes, 0))

\* The writer and its sinks as one value:
\*   [dir, img, imgPos, sector, entries, written]
SinksOf(w) == [dir |-> w.dir, img |-> w.img, imgPos |-> w.imgPos]

WriterAfter(w, s, sec, wr) ==
    [dir |-> s.dir, img |-> s.img, imgPos |-> s.imgPos,
     sector |-> sec, entries |-> w.entries, written |-> wr]

\* A finished call: the result, the bytes taken from the source (write) or
\* returned (read), the operations made on the sinks / the data source, and
\* the writer afterwards.
Returned(res, n, io, w) == [res |-> res, n |-> n, io |-> io, w |-> w]

\* the operations of ops a call under fault f gets to, the failing one included
OpsMade(ops, f) == IF f.at = 0 THEN Len(ops) ELSE f.at

\* V2Writer::new: seek to the start, the header, the count
V2NewOps(n) ==
    << SeekOp(0),
       WriteOp("img", BFromSeq(VERSION_2_HEADER)),
       WriteOp("img", BFromSeq(LittleEndian(n, 4))) >>

\* the first data sector rounded down
V2FirstSectorFloor(n) ==
    (VERSION_2_HEADER_ENTRY_OFFSET + VERSION_2_HEADER_ENTRY_SIZE * n) \div SECTOR_SIZE

V2FirstSector(n) ==
    DivCeil(VERSION_2_HEADER_ENTRY_OFFSET + VERSION_2_HEADER_ENTRY_SIZE * n,
            SECTOR_SIZE)

V2WriterNew(w, n, f) ==
    Bind(V2NewOps(n), LAMBDA ops :
    Bind(RunOps(SinksOf(w), ops, 1, f), LAMBDA r :
        IF r.ok
        THEN Returned("Ok", 0, OpsMade(ops, f),
                      [dir |-> r.s.dir, img |-> r.s.img, imgPos |-> r.s.imgPos,
                       sector |-> V2FirstSector(n), entries |-> n, written |-> 0])
        ELSE Returned("IoError", 0, OpsMade(ops, f),
                      WriterAfter(w, r.s, w.sector, w.written))))

\* V1Writer::write with the length written before the offset
V1WriteOpsSwapped(offset, name, src) ==
    Bind(BLen(src), LAMBDA bytes :
    Bind(DivCeil(bytes, SECTOR_SIZE), LAMBDA length :
        << SeekOp(offset * SECTOR_SIZE),
           WriteOp("copy", src),
           WriteOp("img", remainder_padded_bytes(length, bytes)),
           WriteOp("dir", BFromSeq(LittleEndian(length, 4))),
           WriteOp("dir", BFromSeq(LittleEndian(offset, 4))),
           WriteOp("dir", BFromSeq(to_null_terminated(name))) >>))

\* V1Writer::write, the operations on the sinks in the order of the code
V1WriteOps(offset, name, src) ==
    Bind(BLen(src), LAMBDA bytes :
    Bind(DivCeil(bytes, SECTOR_SIZE), LAMBDA length :
        << SeekOp(offset * SECTOR_SIZE),
           WriteOp("copy", src),
           WriteOp("img", remainder_padded_bytes(length, bytes)),
           WriteOp("dir", BFromSeq(LittleEndian(offset, 4))),
           WriteOp("dir", BFromSeq(LittleEndian(length, 4))),
           WriteOp("dir", BFromSeq(to_null_terminated(name))) >>))

\* self.sector += length made before the operations that can fail
SectorAfterAlways(ok, sec, src) == sec + DivCeil(BLen(src), SECTOR_SIZE)

\* self.sector += length, reached only when every operation before it was Ok
SectorAfter(ok, sec, src) ==
    IF ok THEN sec + DivCeil(BLen(src), SECTOR_SIZE) ELSE sec

\* self.written is never advanced
WrittenStays(ok, wr) == wr

\* self.written += 1, reached only when every operation before it was Ok
WrittenAfter(ok, wr) == IF ok THEN wr + 1 ELSE wr

V1WriterWrite(w, name, src, f) ==
    Bind(V1WriteOps(w.sector, name, src), LAMBDA ops :
    Bind(RunOps(SinksOf(w), ops, 1, f), LAMBDA r :
        Returned(IF r.ok THEN "Ok" ELSE "IoError",
                 SourceRead(ops, 2, f), OpsMade(ops, f),
                 WriterAfter(w, r.s, SectorAfter(r.ok, w.sector, src), w.written))))

\* the byte offset of table slot k of a V2 image
V2SlotOffset(k) ==
    VERSION_2_HEADER_ENTRY_OFFSET + VERSION_2_HEADER_ENTRY_SIZE * k

\* V2Writer::write without the unused 16-bit field of the record
V2WriteOpsNoUnused(offset, slot, name, src) ==
    Bind(BLen(src), LAMBDA bytes :
    Bind(DivCeil(bytes, SECTOR_SIZE), LAMBDA length :
        << SeekOp(offset * SECTOR_SIZE),
           WriteOp("copy", src),
           WriteOp("img", remainder_padded_bytes(length, bytes)),
           SeekOp(V2SlotOffset(slot)),
           WriteOp("img", BFromSeq(LittleEndian(offset, 4))),
           WriteOp("img", BFromSeq(LittleEndian(length, 2))),
           WriteOp("img", BFromSeq(to_null_terminated(name))) >>))

\* V2Writer::write after its capacity check
V2WriteOps(offset, slot, name, src) ==
    Bind(BLen(src), LAMBDA bytes :
    Bind(DivCeil(bytes, SECTOR_SIZE), LAMBDA length :
        << SeekOp(offset * SECTOR_SIZE),
           WriteOp("copy", src),
           WriteOp("img", remainder_padded_bytes(length, bytes)),
           SeekOp(V2SlotOffset(slot)),
           WriteOp("img", BFromSeq(LittleEndian(offset, 4))),
           WriteOp("img", BFromSeq(LittleEndian(length, 2))),
           WriteOp("img", BFromSeq(LittleEndian(0, 2))),
           WriteOp("img", BFromSeq(to_null_terminated(name))) >>))

\* the capacity check with > for >=
V2HeaderFullOffByOne(wr, n) == wr > n

\* if self.written >= self.entries { return Err(InsufficientHeaderSize) }
V2HeaderFull(wr, n) == wr >= n

V2WriterWrite(w, name, src, f) ==
    IF V2HeaderFull(w.written, w.entries)
    THEN Returned("InsufficientHeaderSize", 0, 0, w)
    ELSE
    Bind(V2WriteOps(w.sector, w.written, name, src), LAMBDA ops :
    Bind(RunOps(SinksOf(w), ops, 1, f), LAMBDA r :
        Returned(IF r.ok THEN "Ok" ELSE "IoError",
                 SourceRead(ops, 2, f), OpsMade(ops, f),
                 WriterAfter(w, r.s, SectorAfter(r.ok, w.sector, src),
                             WrittenAfter(r.ok, w.written)))))

\* the faults the sinks can produce in the call, `left` more being allowed
V1WriteFaults(w, name, src, left) ==
    Faults(V1WriteOps(w.sector, name, src), left)

V2WriteFaults(w, name, src, left) ==
    IF V2HeaderFull(w.written, w.entries) THEN {NoFault}
    ELSE Faults(V2WriteOps(w.sector, w.written, name, src), left)


(***************************************************************************)
(* Archive and OpenEntry.                                                  *)
(***************************************************************************)
NoArchive == [ok |-> FALSE, err |-> "unread", entries |-> <<>>]

NoStream == [open |-> FALSE, index |-> 0, off |-> 0, len |-> 0, pos |-> 0, got |-> <<>>]

\* Archive::open with the offset left in sectors
ArchiveOpenSectorOffset(es, index) ==
    IF index >= Len(es) THEN NoStream
    ELSE [open |-> TRUE, index |-> index,
          off |-> es[index + 1].off,
          len |-> es[index + 1].len * SECTOR_SIZE,
          pos |-> 0, got |-> <<>>]

\* Archive::open(index), index counted from 0: None (NoStream) out of range.
\* got is the bytes the stream has returned so far.
ArchiveOpen(es, index) ==
    IF index >= Len(es) THEN NoStream
    ELSE [open |-> TRUE, index |-> index,
          off |-> es[index + 1].off * SECTOR_SIZE,
          len |-> es[index + 1].len * SECTOR_SIZE,
          pos |-> 0, got |-> <<>>]

\* the request not limited to what is left of the entry
ReadRequestWholeBuffer(e, bufLen) == bufLen

\* (self.len - self.pos.min(self.len)).min(buf.len())
ReadRequest(e, bufLen) == Min(e.len - Min(e.pos, e.len), bufLen)

\* What one read of n bytes of the data source at byte offset `at` may
\* deliver: all it has there up to n, or (a short read) half of that; zero
\* only for n = 0 or at the end of the source.
SourceDelivers(imgBytes, at, n) ==
    Bind(Min(n, Max(BLen(imgBytes) - at, 0)), LAMBDA m :
        {m} \cup (IF m >= 2 THEN {m \div 2} ELSE {}))

\* if self.pos >= self.len { return Ok(0) } with > for >=
AtEndOffByOne(e) == e.pos > e.len

\* if self.pos >= self.len { return Ok(0) }
AtEnd(e) == e.pos >= e.len

\* the seek of every read goes to the start of the entry
SeekTargetNoPos(e) == e.off

\* self.inner.seek(io::SeekFrom::Start(self.off + self.pos))
SeekTarget(e) == e.off + e.pos

\* a read with no seek before it: the source is read where its cursor is
ReadAtCursor(e, cursor) == cursor

\* where the source is read: its cursor was `cursor` and the seek has moved it
ReadAt(e, cursor) == SeekTarget(e)

\* OpenEntry::read with a buffer of bufLen bytes, the source delivering k
\* bytes; fail is "none", "seek" or "read" (the source operation that fails).
OpenEntryRead(e, imgBytes, cursor, bufLen, k, fail) ==
    IF AtEnd(e)
    THEN [res |-> "Ok", n |-> 0, io |-> 0, e |-> e, cursor |-> cursor]
    ELSE IF fail = "seek"
    THEN [res |-> "IoError", n |-> 0, io |-> 1, e |-> e, cursor |-> cursor]
    ELSE IF fail = "read"
    THEN [res |-> "IoError", n |-> 0, io |-> 2, e |-> e,
          cursor |-> ReadAt(e, cursor)]
    ELSE [res |-> "Ok", n |-> k, io |-> 2,
          e |-> [e EXCEPT !.pos = e.pos + k,
                          !.got = BCat(e.got,
                                       BSlice(imgBytes, ReadAt(e, cursor), k))],
          cursor |-> ReadAt(e, cursor) + k]

\* the buffers a caller reads with: empty, half a sector, two sectors (the
\* longest entry written here)
BufSizes == {0, SECTOR_SIZE \div 2, 2 * SECTOR_SIZE}

(***************************************************************************)
(* State.                                                                  *)
(***************************************************************************)
VARIABLES
    ver,        \* the variant in use: "none", "V1", "V2", "failed" (new returned Err)
    dir,        \* the bytes of the dir sink / index source (V1)
    img,        \* the bytes of the img sink / data source
    imgPos,     \* the cursor of img
    sector,     \* V1Writer.sector, V2Writer.sector
    entries,    \* V2Writer.entries
    written,    \* V2Writer.written
    calls,      \* write calls made so far
    reads,      \* read calls made on the stream in use
    faults,     \* failed sink / source operations so far
    log,        \* the successful write calls, in order: [name, src, off]
    last,       \* the last call: [op, res, n, io, arg]
    archive,    \* the result of Reader::read, NoArchive before it
    stream,     \* the OpenEntry in use, NoStream when there is none
    codec       \* a name on its way through the codec: [step, text, field, name]

vars == <<ver, dir, img, imgPos, sector, entries, written, calls, reads, faults,
          log, last, archive, stream, codec>>

\* arg: the declared count (new), the index (open), the buffer length (read)
Call(op, res, n, io, arg) ==
    [op |-> op, res |-> res, n |-> n, io |-> io, arg |-> arg]

Writer ==
    [dir |-> dir, img |-> img, imgPos |-> imgPos,
     sector |-> sector, entries |-> entries, written |-> written]

NoWriter ==
    [dir |-> <<>>, img |-> <<>>, imgPos |-> 0,
     sector |-> 0, entries |-> 0, written |-> 0]

\* the variables of the writer and its sinks take the values of w
WriterBecomes(w) ==
    /\ dir' = w.dir
    /\ img' = w.img
    /\ imgPos' = w.imgPos
    /\ sector' = w.sector
    /\ entries' = w.entries
    /\ written' = w.written

Logged(lg, c, name, src, offset) ==
    IF c.res = "Ok" THEN Append(lg, [name |-> name, src |-> src, off |-> offset])
    ELSE lg

\* no name is being encoded or decoded
NoCodec == [step |-> "none", text |-> <<>>, field |-> <<>>, name |-> <<>>]

\* empty sinks, no writer, nothing read
Init ==
    /\ ver = "none"
    /\ dir = <<>>
    /\ img = <<>>
    /\ imgPos = 0
    /\ sector = 0
    /\ entries = 0
    /\ written = 0
    /\ calls = 0
    /\ reads = 0
    /\ faults = 0
    /\ log = <<>>
    /\ last = Call("none", "Ok", 0, 0, 0)
    /\ archive = NoArchive
    /\ stream = NoStream
    /\ codec = NoCodec

FaultCount(f) == IF f.at = 0 THEN faults ELSE faults + 1

\* V1Writer::new(dir, img)
NewV1 ==
    /\ ver = "none"
    /\ ver' = "V1"
    /\ sector' = 0
    /\ last' = Call("new", "Ok", 0, 0, 0)
    /\ UNCHANGED <<dir, img, imgPos, entries, written, calls, reads, faults, log,
                   archive, stream,
                   codec>>

\* V2Writer::new(img, n)
NewV2 ==
    /\ ver = "none"
    /\ \E n \in 0..MaxCalls :
       \E f \in Faults(V2NewOps(n), MaxFaults - faults) :
       \E c \in {V2WriterNew(Writer, n, f)} :
          /\ WriterBecomes(c.w)
          /\ ver' = IF c.res = "Ok" THEN "V2" ELSE "failed"
          /\ faults' = FaultCount(f)
          /\ last' = Call("new", c.res, c.n, c.io, n)
    /\ UNCHANGED <<calls, reads, log, archive, stream,
                   codec>>

\* V1Writer::write(name, src)
V1Write ==
    /\ ver = "V1"
    /\ archive = NoArchive
    /\ calls < MaxCalls
    /\ \E name \in Names, src \in Sources :
       \E f \in V1WriteFaults(Writer, name, src, MaxFaults - faults) :
       \E c \in {V1WriterWrite(Writer, name, src, f)} :
          /\ WriterBecomes(c.w)
          /\ faults' = FaultCount(f)
          /\ log' = Logged(log, c, name, src, sector)
          /\ last' = Call("write", c.res, c.n, c.io, 0)
    /\ calls' = calls + 1
    /\ UNCHANGED <<ver, reads, archive, stream,
                   codec>>

\* V2Writer::write(name, src)
V2Write ==
    /\ ver = "V2"
    /\ archive = NoArchive
    /\ calls < MaxCalls
    /\ \E name \in Names, src \in Sources :
       \E f \in V2WriteFaults(Writer, name, src, MaxFaults - faults) :
       \E c \in {V2WriterWrite(Writer, name, src, f)} :
          /\ WriterBecomes(c.w)
          /\ faults' = FaultCount(f)
          /\ log' = Logged(log, c, name, src, sector)
          /\ last' = Call("write", c.res, c.n, c.io, 0)
    /\ calls' = calls + 1
    /\ UNCHANGED <<ver, reads, archive, stream,
                   codec>>

\* V1Reader::new(dir, img).read(): the index is read from its start
ReadV1 ==
    /\ ver = "V1"
    /\ archive = NoArchive
    /\ \E a \in {V1ReaderRead(dir)} :
          /\ archive' = a
          /\ last' = Call("parse", IF a.ok THEN "Ok" ELSE a.err, Len(a.entries), 0, 0)
    /\ UNCHANGED <<ver, dir, img, imgPos, sector, entries, written, calls, reads,
                   faults, log, stream,
                   codec>>

\* V2Reader::new(img).read(): the image is read from its start
ReadV2 ==
    /\ ver = "V2"
    /\ archive = NoArchive
    /\ \E r \in {V2ReaderRead(img, 0)} :
          /\ archive' = r.res
          /\ imgPos' = r.st.pos
          /\ last' = Call("parse", IF r.res.ok THEN "Ok" ELSE r.res.err,
                          Len(r.res.entries), 0, 0)
    /\ UNCHANGED <<ver, dir, img, sector, entries, written, calls, reads, faults,
                   log, stream,
                   codec>>

\* Archive::open(index); an OpenEntry borrows the archive mutably, so the
\* stream opened before is gone
Open ==
    /\ archive.ok
    /\ \E index \in 0..Len(archive.entries) :
          /\ stream' = ArchiveOpen(archive.entries, index)
          /\ last' = Call("open", IF stream'.open THEN "Some" ELSE "None", 0, 0, index)
    /\ reads' = 0
    /\ UNCHANGED <<ver, dir, img, imgPos, sector, entries, written, calls, faults,
                   log, archive,
                   codec>>

ReadFaults == {"none"} \cup (IF faults < MaxFaults THEN {"seek", "read"} ELSE {})

\* OpenEntry::read(buf)
EntryRead ==
    /\ stream.open
    /\ reads < MaxReads
    /\ \E bufLen \in BufSizes, fail \in ReadFaults :
       \E k \in SourceDelivers(img, ReadAt(stream, imgPos),
                              ReadRequest(stream, bufLen)) :
       \E c \in {OpenEntryRead(stream, img, imgPos, bufLen, k, fail)} :
          /\ stream' = c.e
          /\ imgPos' = c.cursor
          /\ faults' = IF c.res = "IoError" THEN faults + 1 ELSE faults
          /\ last' = Call("read", c.res, c.n, c.io, bufLen)
    /\ reads' = reads + 1
    /\ UNCHANGED <<ver, dir, img, sector, entries, written, calls, log, archive,
                   codec>>

(***************************************************************************)
(* Writing: a writer is made, entries are written (a sink operation may    *)
(* fail), and the result is read back.                                     *)
(***************************************************************************)
Next == NewV1 \/ NewV2 \/ V1Write \/ V2Write \/ ReadV1 \/ ReadV2

Spec == Init /\ [][Next]_vars


(***************************************************************************)
(* Properties of writing.                                                  *)
(***************************************************************************)
\* the entries a reader is to find for the successful writes lg
ExpectedEntries(lg) ==
    [i \in 1..Len(lg) |->
        Entry(lg[i].name, lg[i].off, DivCeil(BLen(lg[i].src), SECTOR_SIZE))]

\* every payload of lg lies in the image at the sector recorded for it
PayloadsInPlace(lg, imgBytes) ==
    \A i \in 1..Len(lg) :
        BSlice(imgBytes, lg[i].off * SECTOR_SIZE, BLen(lg[i].src)) = lg[i].src

Parsed == archive # NoArchive

\* C1: V1 round trip.  After V1Writer.write calls that all succeeded, on
\* sinks that were empty, V1Reader.read returns the written entries in
\* order: same name, the sector the payload was placed at, and
\* ceil(payload bytes / 2048) as length.
C1_V1RoundTrip ==
    (ver = "V1" /\ Parsed /\ faults = 0) =>
        /\ archive = ArchiveOk(ExpectedEntries(log))
        /\ Len(log) = calls
        /\ PayloadsInPlace(log, img)

\* two entries with different names, the second one not at sector 0, read back
C1_Witness ==
    /\ ver = "V1" /\ Parsed /\ faults = 0
    /\ Len(archive.entries) = 2
    /\ archive.entries[1].name = NameVirgo
    /\ archive.entries[2].name = NameFull
    /\ archive.entries[2].off = 2
    /\ archive.entries[2].len = 1

\* C2: V2 round trip.  After V2Writer::new(sink, N) and N write calls, all
\* successful, the sink starts with 56 45 52 32 and N in little-endian, and
\* V2Reader.read returns exactly the N written entries in order.
C2_V2RoundTrip ==
    (ver = "V2" /\ Parsed /\ faults = 0 /\ Len(log) = entries) =>
        /\ BToSeq(BSlice(img, 0, 4)) = <<86, 69, 82, 50>>
        /\ BToSeq(BSlice(img, 4, 4)) = <<entries, 0, 0, 0>>
        /\ archive = ArchiveOk(ExpectedEntries(log))
        /\ Len(archive.entries) = entries
        /\ PayloadsInPlace(log, img)

\* a V2 archive of two entries read back, the first at sector 1
C2_Witness ==
    /\ ver = "V2" /\ Parsed /\ faults = 0
    /\ entries = 2
    /\ Len(archive.entries) = 2
    /\ archive.entries[1].name = NameFull
    /\ archive.entries[1].off = 1
    /\ archive.entries[1].len = 2
    /\ archive.entries[2].off = 3

\* C3: V2 capacity.  A write call made after N writes have succeeded returns
\* InsufficientHeaderSize and changes nothing: not the sink's bytes or
\* cursor, not the source (no byte taken), not sector or written; and no
\* write call made while fewer than N writes have succeeded is rejected so.
C3_CapacityRejection ==
    [][(ver = "V2" /\ calls' = calls + 1) =>
          IF Len(log) >= entries
          THEN /\ last'.res = "InsufficientHeaderSize"
               /\ last'.n = 0 /\ last'.io = 0
               /\ img' = img /\ imgPos' = imgPos /\ dir' = dir
               /\ sector' = sector /\ written' = written
          ELSE last'.res # "InsufficientHeaderSize"]_vars

\* the second write on a writer of declared count 1 was rejected
C3_Witness ==
    /\ ver = "V2" /\ entries = 1 /\ Len(log) = 1 /\ calls = 2
    /\ last.op = "write" /\ last.res = "InsufficientHeaderSize"

\* C4: a write call that fails in a seek, the copy, the padding or a
\* metadata write leaves sector (and written) as before the call.
C4_CursorKeptOnFailure ==
    [][(calls' = calls + 1 /\ last'.res = "IoError") =>
          (sector' = sector /\ written' = written)]_vars

\* a V2 write failed in its last metadata write, after a successful write
C4_Witness ==
    /\ ver = "V2" /\ Len(log) = 1 /\ calls = 2
    /\ last.op = "write" /\ last.res = "IoError" /\ last.io = 8
    /\ sector = 2 /\ written = 1

\* a byte string of zero bytes only (the empty one included)
ZeroBytes(s) == \A i \in 1..Len(s) : s[i].b = 0

\* C5: write is all-or-nothing per entry.  A write call that fails with an
\* I/O error leaves no partial record of the failed entry in the directory
\* metadata (the V1 dir stream is as it was, the V2 slot of the entry holds
\* nothing), leaves the payloads of the earlier entries in place, and a
\* parse after any later writes yields exactly the entries of the
\* successful writes, in order.
C5_AllOrNothing ==
    [][/\ (calls' = calls + 1 /\ last'.res = "IoError") =>
            /\ ver = "V1" => dir' = dir
            /\ ver = "V2" =>
                  ZeroBytes(BSlice(img', V2SlotOffset(written),
                                   VERSION_2_HEADER_ENTRY_SIZE))
            /\ PayloadsInPlace(log, img')
       /\ (~Parsed /\ Parsed' /\ (ver = "V2" => Len(log) = entries)) =>
            archive' = ArchiveOk(ExpectedEntries(log))]_vars

(***************************************************************************)
(* Reading: an archive that a writer wrote without a failure is read back, *)
(* its entries are opened and read.  The data source is the image as       *)
(* written, or the image with its end cut off.                             *)
(***************************************************************************)
\* the name given to the i-th entry written
NameAt(i) == IF i % 2 = 1 THEN NameVirgo ELSE NameFull

\* the archives read back: an empty one, one of a single empty entry, and
\* ones whose entries differ in size, with an empty entry between two others
SourceLists ==
    { <<>>,
      <<Payload(86, 0)>>,
      <<Payload(76, SECTOR_SIZE + 1), Payload(86, SECTOR_SIZE)>>,
      <<Payload(86, SECTOR_SIZE), Payload(86, 0), Payload(76, SECTOR_SIZE + 1)>> }

\* the writer and the log after writing srcs[i..] with no fault
RECURSIVE WriteAll(_, _, _, _, _)
WriteAll(v, w, lg, srcs, i) ==
    IF i > Len(srcs) THEN [w |-> w, log |-> lg]
    ELSE Bind(IF v = "V1" THEN V1WriterWrite(w, NameAt(i), srcs[i], NoFault)
                          ELSE V2WriterWrite(w, NameAt(i), srcs[i], NoFault),
              LAMBDA c :
                WriteAll(v, c.w, Logged(lg, c, NameAt(i), srcs[i], w.sector),
                         srcs, i + 1))

\* ...::new, then one write per payload of srcs (V2: declared count Len(srcs))
Written(v, srcs) ==
    WriteAll(v,
             IF v = "V1" THEN NoWriter
                         ELSE V2WriterNew(NoWriter, Len(srcs), NoFault).w,
             <<>>, srcs, 1)

\* bytes missing at the end of the data source
Truncations == {0, SECTOR_SIZE \div 2}

\* the state in which variant v has written r, the readers see index and
\* image bytes d and i, and nothing has been read
ReadyToRead(v, r, d, i) ==
    /\ ver = v
    /\ dir = d
    /\ img = i
    /\ imgPos = 0
    /\ sector = r.w.sector
    /\ entries = r.w.entries
    /\ written = r.w.written
    /\ calls = Len(r.log)
    /\ reads = 0
    /\ faults = 0
    /\ log = r.log
    /\ last = Call("none", "Ok", 0, 0, 0)
    /\ archive = NoArchive
    /\ stream = NoStream
    /\ codec = NoCodec

InitRead ==
    \E v \in {"V1", "V2"}, srcs \in SourceLists, cut \in Truncations :
    \E r \in {Written(v, srcs)} :
        ReadyToRead(v, r, r.w.dir, BTake(r.w.img, BLen(r.w.img) - cut))

NextRead == ReadV1 \/ ReadV2 \/ Open \/ EntryRead

SpecRead == InitRead /\ [][NextRead]_vars

(***************************************************************************)
(* Parsing: the index of a V1 archive, and the image of a V2 archive, that *)
(* end anywhere, or (V2) do not start with the magic.                      *)
(***************************************************************************)
\* the archive whose index is cut: two entries
ParsedSources == <<Payload(86, SECTOR_SIZE), Payload(76, SECTOR_SIZE + 1)>>

\* imgBytes with the byte at offset i replaced by b
WithByte(imgBytes, i, b) == BWriteAt(imgBytes, i, <<[b |-> b, n |-> 1]>>)

InitParse ==
    \/ \E r \in {Written("V1", ParsedSources)} :
       \E l \in 0..BLen(r.w.dir) :
          ReadyToRead("V1", r, BTake(r.w.dir, l), r.w.img)
    \/ \E r \in {Written("V2", ParsedSources)} :
       \E l \in 0..V2SlotOffset(Len(ParsedSources)) \cup {BLen(r.w.img)} :
          ReadyToRead("V2", r, <<>>, BTake(r.w.img, l))
    \/ \E r \in {Written("V2", ParsedSources)} :
       \E i \in 0..(Len(VERSION_2_HEADER) - 1) :
          ReadyToRead("V2", r, <<>>, WithByte(r.w.img, i, 88))

NextParse == ReadV1 \/ ReadV2 \/ Open

SpecParse == InitParse /\ [][NextParse]_vars


(***************************************************************************)
(* Properties of reading.                                                  *)
(***************************************************************************)
\* the data source holds every byte of the entry's range
Covers(e) == e.off + e.len <= BLen(img)

\* the write call that made the entry the stream is open on
WrittenFor(e) == log[e.index + 1]

\* a payload with the zero padding of its last sector
Padded(src) ==
    BCat(src, BZeros(DivCeil(BLen(src), SECTOR_SIZE) * SECTOR_SIZE - BLen(src)))

\* The last call was a read with a buffer at least as large as the entry, it
\* delivered the whole entry, and the stream had returned nothing before.
ReadInOneCall ==
    /\ archive = ArchiveOk(ExpectedEntries(log))
    /\ stream.open
    /\ last.op = "read" /\ last.res = "Ok"
    /\ last.arg >= stream.len
    /\ last.n = stream.len
    /\ stream.pos = last.n

\* C6 as stated: one read with a buffer at least as large as the entry
\* yields exactly the B payload bytes, and never the zero padding.
C6_ExactPayload ==
    ReadInOneCall =>
        /\ stream.got = WrittenFor(stream).src
        /\ last.n = BLen(WrittenFor(stream).src)

\* C6 as amended: one read with a buffer at least as large as the entry, in
\* which the data source delivers the whole request, yields exactly
\* ceil(B / 2048) * 2048 bytes: the B payload bytes, then the zero padding
\* of the last sector.
C6_PaddedPayload ==
    ReadInOneCall =>
        /\ stream.got = Padded(WrittenFor(stream).src)
        /\ last.n = DivCeil(BLen(WrittenFor(stream).src), SECTOR_SIZE) * SECTOR_SIZE

\* the entry of 2049 payload bytes at sector 2 of a V2 archive, read in one
\* call: 4096 bytes came back
C6_Witness ==
    /\ ReadInOneCall
    /\ ver = "V2"
    /\ stream.off = 2 * SECTOR_SIZE
    /\ BLen(WrittenFor(stream).src) = SECTOR_SIZE + 1
    /\ last.n = 2 * SECTOR_SIZE
    /\ stream.got # WrittenFor(stream).src

\* C7: chunked reading equals one large read.  Over a data source that
\* covers the entry, the bytes returned so far by successive reads are the
\* source bytes from off*2048 on, and at the first read with a non-empty
\* buffer that returns zero they are the bytes of the whole range
\* [off*2048, off*2048 + len*2048), which is what one large read returns.
C7_ChunkedEqualsWhole ==
    (stream.open /\ Covers(stream)) =>
        /\ stream.got = BSlice(img, stream.off, stream.pos)
        /\ stream.pos <= stream.len
        /\ (last.op = "read" /\ last.res = "Ok" /\ last.n = 0 /\ last.arg > 0) =>
              stream.got = BSlice(img, stream.off, stream.len)

\* an entry of one sector read in two chunks of half a sector, then the read
\* that returns zero
C7_Witness ==
    /\ stream.open /\ Covers(stream)
    /\ stream.len = SECTOR_SIZE /\ stream.pos = SECTOR_SIZE
    /\ reads = 3
    /\ last.op = "read" /\ last.res = "Ok" /\ last.n = 0
    /\ last.arg = SECTOR_SIZE \div 2
    /\ stream.got = WrittenFor(stream).src

\* C8: end-of-entry is sticky.  Once pos has reached len, every read returns
\* Ok(0), makes no seek and no read on the data source, and leaves the
\* position (and the source's cursor) as they were.
C8_StickyEnd ==
    [][(stream.open /\ stream.pos >= stream.len /\ reads' = reads + 1) =>
          /\ last'.op = "read" /\ last'.res = "Ok" /\ last'.n = 0
          /\ last'.io = 0
          /\ imgPos' = imgPos
          /\ stream' = stream]_vars

\* a second read at the end of an entry that is not empty, with a buffer
\* that is not empty
C8_Witness ==
    /\ stream.open /\ stream.len > 0 /\ stream.pos = stream.len
    /\ reads = 3
    /\ last.op = "read" /\ last.res = "Ok" /\ last.n = 0 /\ last.io = 0
    /\ last.arg > 0

(***************************************************************************)
(* Properties of parsing.                                                  *)
(***************************************************************************)
\* the size of a record of the V1 index
V1RecordSize == 4 + 4 + NAME_SIZE_NULL_TERMINATOR

\* C9: V1 end-of-stream rule.  An index of L bytes parses to exactly L / 32
\* entries when L is a multiple of 32, and to an error when it is not,
\* wherever in the record the stream ends.
C9_V1EndOfStream ==
    (ver = "V1" /\ Parsed) =>
        IF BLen(dir) % V1RecordSize = 0
        THEN archive.ok /\ Len(archive.entries) = BLen(dir) \div V1RecordSize
        ELSE ~archive.ok

\* the count field of a V2 image that has one
V2Count(imgBytes) == FromLittleEndian(BToSeq(BSlice(imgBytes, 4, 4)))

V2MagicOk(imgBytes) ==
    BToSeq(BSlice(imgBytes, 0, Len(VERSION_2_HEADER))) = VERSION_2_HEADER

\* the magic, the count and every record of the table are there
V2Complete(imgBytes) ==
    /\ V2MagicOk(imgBytes)
    /\ BLen(imgBytes) >= VERSION_2_HEADER_ENTRY_OFFSET
    /\ BLen(imgBytes) >= V2SlotOffset(V2Count(imgBytes))

\* C10: V2 parse is all-or-nothing.  An archive is returned exactly when the
\* magic, a count N and N complete 32-byte records are there, and then it
\* has N entries; a different magic gives InvalidHeader, decided before
\* anything else is read; a stream that ends in the count or in the table,
\* a name field included, gives an I/O error.
C10_V2AllOrNothing ==
    (ver = "V2" /\ Parsed) =>
        /\ archive.ok <=> V2Complete(img)
        /\ archive.ok => Len(archive.entries) = V2Count(img)
        /\ (BLen(img) >= Len(VERSION_2_HEADER) /\ ~V2MagicOk(img)) =>
              (archive.err = "InvalidHeader" /\ imgPos = Len(VERSION_2_HEADER))
        /\ (V2MagicOk(img) /\ ~V2Complete(img)) => archive.err = "IoError"

(***************************************************************************)
(* Properties of reading a data source that ends early.                    *)
(***************************************************************************)
\* the last call was a read into a buffer that is not empty, and it
\* returned Ok(0): the stream has ended cleanly
EndedCleanly ==
    /\ stream.open
    /\ last.op = "read" /\ last.res = "Ok" /\ last.n = 0 /\ last.arg > 0

\* C11: a truncated data source fails at read time.  Parsing a V1 index
\* succeeds and makes no read or seek on the data source; a stream of an
\* entry whose range extends past the end of the data source never ends
\* cleanly (Ok(0) into a buffer that is not empty) before it has returned
\* len bytes.
C11_TruncatedFailsAtRead ==
    /\ (ver = "V1" /\ last.op = "parse") => (archive.ok /\ imgPos = 0)
    /\ (EndedCleanly /\ ~Covers(stream)) => stream.pos >= stream.len

(***************************************************************************)
(* The name codec: a text is encoded into a name field by                  *)
(* to_null_terminated, and the field is decoded by read_null_terminated.   *)
(* A text is a sequence of code points.                                    *)
(***************************************************************************)
\* the longest text encoded
MaxNameLen == 25

\* the characters put somewhere in a text: the null character, the lowest
\* and the highest that fit in a byte, the lowest that does not, a wide one
OddChars == {0, 1, 255, 256, 8364}

\* The text of n characters, all different letters and digits, with the
\* character c at position p (p = 0: nowhere).
Text(n, p, c) == [i \in 1..n |-> IF i = p THEN c ELSE 64 + i]

Texts == {Text(n, p, c) : n \in 0..MaxNameLen, p \in 0..MaxNameLen, c \in OddChars}

InitName ==
    /\ ver = "none"
    /\ dir = <<>>
    /\ img = <<>>
    /\ imgPos = 0
    /\ sector = 0
    /\ entries = 0
    /\ written = 0
    /\ calls = 0
    /\ reads = 0
    /\ faults = 0
    /\ log = <<>>
    /\ last = Call("none", "Ok", 0, 0, 0)
    /\ archive = NoArchive
    /\ stream = NoStream
    /\ \E text \in Texts :
          codec = [step |-> "text", text |-> text, field |-> <<>>, name |-> <<>>]

\* to_null_terminated(text)
Encode ==
    /\ codec.step = "text"
    /\ codec' = [codec EXCEPT !.step = "field",
                              !.field = to_null_terminated(codec.text)]
    /\ UNCHANGED <<ver, dir, img, imgPos, sector, entries, written, calls, reads,
                   faults, log, last, archive, stream>>

\* read_null_terminated over a stream that holds the field
Decode ==
    /\ codec.step = "field"
    /\ codec' = [codec EXCEPT
                    !.step = "name",
                    !.name = read_null_terminated(
                                 [data |-> BFromSeq(codec.field), pos |-> 0]).name]
    /\ UNCHANGED <<ver, dir, img, imgPos, sector, entries, written, calls, reads,
                   faults, log, last, archive, stream>>

NextName == Encode \/ Decode

SpecName == InitName /\ [][NextName]_vars

\* a text of single-byte characters, none of them null
SingleByteNonNull(text) == \A i \in 1..Len(text) : text[i] >= 1 /\ text[i] <= 255

\* C12: name round trip.  For a name of at most 23 single-byte non-null
\* characters, decoding the encoded field yields exactly that name; for a
\* longer name of such characters it yields exactly its first 23 characters.
C12_NameRoundTrip ==
    (codec.step = "name" /\ SingleByteNonNull(codec.text)) =>
        IF Len(codec.text) <= NAME_SIZE
        THEN codec.name = codec.text
        ELSE codec.name = SubSeq(codec.text, 1, NAME_SIZE)

\* a name of 25 characters, the 23rd of them 255, decoded to its first 23
C12_Witness ==
    /\ codec.step = "name"
    /\ SingleByteNonNull(codec.text)
    /\ Len(codec.text) = NAME_SIZE + 2
    /\ codec.text[NAME_SIZE] = 255
    /\ Len(codec.name) = NAME_SIZE
    /\ codec.name[NAME_SIZE] = 255

\* the characters of a text that fit in one byte, in order
FitInByte(text) == SelectSeq(text, LAMBDA c : c <= 255)

\* C13: name encoding shape.  For every text, to_null_terminated returns
\* exactly 24 bytes, the last one null: the first 23 of the text's characters
\* that fit in one byte (the others are dropped, not replaced), then nulls.
C13_NameEncodingShape ==
    codec.step \in {"field", "name"} =>
        LET fit == FitInByte(codec.text)
            k == Min(Len(fit), NAME_SIZE)
        IN  /\ Len(codec.field) = NAME_SIZE + 1
            /\ codec.field[NAME_SIZE + 1] = NULL_TERMINATOR
            /\ SubSeq(codec.field, 1, k) = SubSeq(fit, 1, k)
            /\ \A i \in (k + 1)..(NAME_SIZE + 1) : codec.field[i] = NULL_TERMINATOR

\* a text of 25 characters whose 2nd does not fit in a byte: the field holds
\* the 1st, then the 3rd to the 24th, then the null
C13_Witness ==
    /\ codec.step = "field"
    /\ Len(codec.text) = NAME_SIZE + 2
    /\ codec.text[2] = 8364
    /\ codec.field[1] = codec.text[1]
    /\ codec.field[2] = codec.text[3]
    /\ codec.field[NAME_SIZE] = codec.text[NAME_SIZE + 1]
    /\ codec.field[NAME_SIZE + 1] = NULL_TERMINATOR

(***************************************************************************)
(* Properties of the entry stream and the shared cursor.                   *)
(***************************************************************************)
\* the step is a read call on the stream in use
IsRead == stream.open /\ reads' = reads + 1 /\ last'.op = "read"

U16Max == 65535

\* payloads of exactly 65535 sectors, and of one byte more (65536 sectors)
LargeSources ==
    {Payload(86, U16Max * SECTOR_SIZE), Payload(76, U16Max * SECTOR_SIZE + 1)}

\* V2Writer::write(name, src) with a large payload
V2WriteLarge ==
    /\ ver = "V2"
    /\ archive = NoArchive
    /\ calls < MaxCalls
    /\ \E name \in Names, src \in LargeSources :
       \E f \in V2WriteFaults(Writer, name, src, MaxFaults - faults) :
       \E c \in {V2WriterWrite(Writer, name, src, f)} :
          /\ WriterBecomes(c.w)
          /\ faults' = FaultCount(f)
          /\ log' = Logged(log, c, name, src, sector)
          /\ last' = Call("write", c.res, c.n, c.io, 0)
    /\ calls' = calls + 1
    /\ UNCHANGED <<ver, reads, archive, stream, codec>>

NextLarge == NewV2 \/ V2Write \/ V2WriteLarge \/ ReadV2

SpecLarge == Init /\ [][NextLarge]_vars

\* the 16-bit length stored in table slot k of the image
StoredLength(imgBytes, k) ==
    FromLittleEndian(BToSeq(BSlice(imgBytes, V2SlotOffset(k) + 4, 2)))

\* C15: V2 length width is validated, not truncated.  No write of a payload
\* of more than 65535 sectors succeeds (it is rejected), and the 16-bit
\* length stored in the slot of every written entry is the true sector count
\* ceil(payload bytes / 2048) of its payload.
C15_LengthValidated ==
    ver = "V2" =>
        \A i \in 1..Len(log) :
            /\ DivCeil(BLen(log[i].src), SECTOR_SIZE) <= U16Max
            /\ StoredLength(img, i - 1) = DivCeil(BLen(log[i].src), SECTOR_SIZE)

(***************************************************************************)
(* Layout of a V2 image: writers are made for tables of one slot, of the   *)
(* most that fit in one sector with the header (63), and of one more (64). *)
(***************************************************************************)
\* the most slots whose table ends inside the first sector
SlotsInFirstSector ==
    (SECTOR_SIZE - VERSION_2_HEADER_ENTRY_OFFSET) \div VERSION_2_HEADER_ENTRY_SIZE

TableSizes == {1, SlotsInFirstSector, SlotsInFirstSector + 1}

\* V2Writer::new(img, n) for the table sizes above
NewV2Table ==
    /\ ver = "none"
    /\ \E n \in TableSizes :
       \E f \in Faults(V2NewOps(n), MaxFaults - faults) :
       \E c \in {V2WriterNew(Writer, n, f)} :
          /\ WriterBecomes(c.w)
          /\ ver' = IF c.res = "Ok" THEN "V2" ELSE "failed"
          /\ faults' = FaultCount(f)
          /\ last' = Call("new", c.res, c.n, c.io, n)
    /\ UNCHANGED <<calls, reads, log, archive, stream, codec>>

NextLayout == NewV2Table \/ V2Write

SpecLayout == Init /\ [][NextLayout]_vars

\* the n bytes of the sink from pos on, a byte the sink does not hold yet
\* read as the zero a write past it would leave there
Region(imgBytes, pos, n) ==
    BSlice(BCat(imgBytes, BZeros(Max(pos + n - BLen(imgBytes), 0))), pos, n)

\* the bytes from pos on are the same n bytes before and after the step
\* (no bytes for n <= 0)
Kept(pos, n) == Region(img', pos, Max(n, 0)) = Region(img, pos, Max(n, 0))

\* the step is a V2Writer::write call
IsV2Write == ver = "V2" /\ calls' = calls + 1

\* C16: V2 header and data regions never overlap.  V2Writer::new puts the
\* magic and N at bytes 0..8 and the first data sector at
\* ceil((8 + 32 N) / 2048), which is past the table; a write call changes
\* no byte of the header, of the slots before and after its own, of the gap between
\* the table and the first data sector, or of the payloads written before,
\* and puts its payload at or above the first data sector.
C16_RegionsDisjoint ==
    [][/\ (ver = "none" /\ ver' = "V2") =>
            /\ BToSeq(Region(img', 0, VERSION_2_HEADER_ENTRY_OFFSET)) =
                  VERSION_2_HEADER \o LittleEndian(entries', 4)
            /\ sector' = DivCeil(V2SlotOffset(entries'), SECTOR_SIZE)
            /\ sector' * SECTOR_SIZE >= V2SlotOffset(entries')
       /\ IsV2Write =>
            LET first == DivCeil(V2SlotOffset(entries), SECTOR_SIZE) * SECTOR_SIZE
            IN  /\ Kept(0, VERSION_2_HEADER_ENTRY_OFFSET)
                /\ Kept(V2SlotOffset(0), V2SlotOffset(written) - V2SlotOffset(0))
                /\ Kept(V2SlotOffset(written + 1),
                        V2SlotOffset(entries) - V2SlotOffset(written + 1))
                /\ Kept(V2SlotOffset(entries), first - V2SlotOffset(entries))
                /\ Kept(first, sector * SECTOR_SIZE - first)
                /\ sector * SECTOR_SIZE >= first
                /\ PayloadsInPlace(log', img')]_vars

\* a table of 64 slots, which ends in the second sector: the first payload
\* went to sector 2, and two entries are written
C16_Witness ==
    /\ ver = "V2" /\ entries = SlotsInFirstSector + 1
    /\ written = 2 /\ Len(log) = 2
    /\ log[1].off = 2
    /\ BLen(log[1].src) = SECTOR_SIZE + 1
    /\ log[2].off = 4
    /\ last.op = "write" /\ last.res = "Ok"

(***************************************************************************)
(* Layout of the entries of one writer.                                    *)
(***************************************************************************)
\* the sector count of a payload
SectorsOf(src) == DivCeil(BLen(src), SECTOR_SIZE)

\* the sectors of the first n entries of lg
RECURSIVE SectorsBefore(_, _)
SectorsBefore(lg, n) ==
    IF n = 0 THEN 0 ELSE SectorsBefore(lg, n - 1) + SectorsOf(lg[n].src)

\* the sector a writer of variant v starts at
InitialSector(v, n) == IF v = "V1" THEN 0 ELSE DivCeil(V2SlotOffset(n), SECTOR_SIZE)

\* the offset and length recorded for entry i (from 1) in the index of a V1
\* archive, or in the table of a V2 image
Recorded(v, dirBytes, imgBytes, i) ==
    IF v = "V1"
    THEN [off |-> FromLittleEndian(BToSeq(BSlice(dirBytes, V1RecordSize * (i - 1), 4))),
          len |-> FromLittleEndian(BToSeq(BSlice(dirBytes, V1RecordSize * (i - 1) + 4, 4)))]
    ELSE [off |-> FromLittleEndian(BToSeq(BSlice(imgBytes, V2SlotOffset(i - 1), 4))),
          len |-> StoredLength(imgBytes, i - 1)]

\* Every entry has length ceil(bytes / 2048) and the offset that follows the
\* entries before it, its payload is in place with its zero padding after
\* it, and no two entries overlap.
Contiguous(v, n, lg, dirBytes, imgBytes) ==
    /\ \A i \in 1..Len(lg) :
          /\ Recorded(v, dirBytes, imgBytes, i) =
                [off |-> InitialSector(v, n) + SectorsBefore(lg, i - 1),
                 len |-> SectorsOf(lg[i].src)]
          /\ lg[i].off = InitialSector(v, n) + SectorsBefore(lg, i - 1)
          /\ BSlice(imgBytes, lg[i].off * SECTOR_SIZE, SectorsOf(lg[i].src) * SECTOR_SIZE)
                = Padded(lg[i].src)
    /\ \A i, j \in 1..Len(lg) :
          i < j => lg[i].off + SectorsOf(lg[i].src) <= lg[j].off

\* the cursor does not go back, and a successful write leaves it where it
\* was only for an empty payload
CursorAdvances ==
    /\ sector' >= sector
    /\ (calls' = calls + 1 /\ last'.res = "Ok") =>
          (sector' = sector <=> BLen(log'[Len(log')].src) = 0)

\* some payload written is not empty
SomePayload(lg) == \E i \in 1..Len(lg) : BLen(lg[i].src) > 0

\* C17 as stated: after successful writes the entries are contiguous and
\* sector-aligned, the data sink ends on a sector boundary, and the sector
\* cursor never decreases.
C17_AlignedLayout ==
    [][(ver' \in {"V1", "V2"} /\ faults' = 0 /\ ~Parsed') =>
          /\ Contiguous(ver', entries', log', dir', img')
          /\ CursorAdvances
          /\ Len(log') >= 1 => BLen(img') % SECTOR_SIZE = 0]_vars

\* C17 as amended: after successful writes the entries are contiguous and
\* sector-aligned and the sector cursor never decreases; the data sink ends
\* at the sector cursor, a sector boundary, for V1 and for V2 once a payload
\* that is not empty has been written, and a V2 sink whose payloads are all
\* empty ends at the end of its last written table slot.
C17_AlignedLayoutOnceData ==
    [][(ver' \in {"V1", "V2"} /\ faults' = 0 /\ ~Parsed') =>
          /\ Contiguous(ver', entries', log', dir', img')
          /\ CursorAdvances
          /\ BLen(img') = IF ver' = "V1" \/ SomePayload(log')
                          THEN sector' * SECTOR_SIZE
                          ELSE V2SlotOffset(Len(log'))]_vars

\* a V2 image of two entries, the first one empty: both are at sector 1, the
\* second one takes two sectors, and the image ends at sector 3
C17_Witness ==
    /\ ver = "V2" /\ faults = 0 /\ entries = 2 /\ Len(log) = 2
    /\ BLen(log[1].src) = 0 /\ log[1].off = 1
    /\ BLen(log[2].src) = SECTOR_SIZE + 1 /\ log[2].off = 1
    /\ sector = 3
    /\ BLen(img) = 3 * SECTOR_SIZE

(***************************************************************************)
(* The table slots of a V2 image.                                          *)
(***************************************************************************)
\* the 32 bytes of the record of a written entry
RecordOf(e) ==
    LittleEndian(e.off, 4) \o LittleEndian(SectorsOf(e.src), 2) \o LittleEndian(0, 2)
        \o to_null_terminated(e.name)

\* C18: V2 slot bookkeeping.  written <= entries in every state and written
\* counts the successful writes; the k-th successful write (from 0) leaves
\* its record in the 32 bytes at 8 + 32 k; and no write call, successful or
\* failed, changes a slot written by a successful write before it, or a slot
\* after its own.
C18_SlotBookkeeping ==
    [][ver' = "V2" =>
          /\ written' <= entries'
          /\ written' = Len(log')
          /\ IsV2Write =>
                /\ Kept(V2SlotOffset(0), V2SlotOffset(Len(log)) - V2SlotOffset(0))
                /\ Kept(V2SlotOffset(Len(log) + 1),
                        V2SlotOffset(entries) - V2SlotOffset(Len(log) + 1))
                /\ last'.res = "Ok" =>
                      /\ Len(log') = Len(log) + 1
                      /\ BToSeq(Region(img', V2SlotOffset(Len(log)),
                                       VERSION_2_HEADER_ENTRY_SIZE))
                            = RecordOf(log'[Len(log')])]_vars

\* two entries written to a table of 63 slots: slot 1 holds the record of
\* the second, slot 0 still that of the first
C18_Witness ==
    /\ ver = "V2" /\ entries = SlotsInFirstSector
    /\ written = 2 /\ Len(log) = 2
    /\ last.op = "write" /\ last.res = "Ok"
    /\ log[2].off > log[1].off
    /\ BToSeq(Region(img, V2SlotOffset(0), VERSION_2_HEADER_ENTRY_SIZE)) = RecordOf(log[1])
    /\ BToSeq(Region(img, V2SlotOffset(1), VERSION_2_HEADER_ENTRY_SIZE)) = RecordOf(log[2])

(***************************************************************************)
(* The position of an entry stream.                                        *)
(***************************************************************************)
\* C19: entry stream position bound.  In every state of an open stream
\* 0 <= pos <= len, and the bytes returned so far are pos in number; a read
\* that reaches the data source reads it at off + pos, returns at most
\* min(len - pos, buffer size) bytes and adds exactly that number to pos; a
\* read that fails leaves pos; pos never decreases.
C19_PositionBound ==
    [][stream'.open =>
          /\ 0 <= stream'.pos /\ stream'.pos <= stream'.len
          /\ BLen(stream'.got) = stream'.pos
          /\ IsRead =>
                /\ stream'.pos >= stream.pos
                /\ stream'.pos = stream.pos + last'.n
                /\ last'.n <= Min(stream.len - stream.pos, last'.arg)
                /\ last'.res # "Ok" => last'.n = 0
                /\ (last'.res = "Ok" /\ last'.io > 0) =>
                      imgPos' = stream.off + stream.pos + last'.n]_vars

\* an entry of two sectors read with a two-sector buffer while the source
\* delivers short: the third read was left 1024 bytes to ask for, and ends
\* the entry
C19_Witness ==
    /\ stream.open /\ stream.len = 2 * SECTOR_SIZE
    /\ reads = 3
    /\ last.op = "read" /\ last.res = "Ok"
    /\ last.arg = 2 * SECTOR_SIZE
    /\ last.n = SECTOR_SIZE \div 2
    /\ stream.pos = stream.len
    /\ BLen(stream.got) = stream.len

====
